---- MODULE Spec2Model ----
(***************************************************************************)
(* A model of the Graph class of graph.py: an unweighted graph whose nodes *)
(* are the keys of an insertion-ordered dictionary (adjacencies) mapping   *)
(* each node to the set of its neighbours, with the insertion-order list   *)
(* notVisited, DOT export/import, BFS and DFS tree extraction and          *)
(* topological sort.                                                       *)
(*                                                                         *)
(* Node names are the one-character strings "1", "2", ...; the model       *)
(* writes them as the integers 1, 2, ... so that Python's string order     *)
(* (sorted(), node < neighbor) is the integer order.                       *)
(*                                                                         *)
(* A Graph object is a record                                              *)
(*   name, directed : the fields of the same name                          *)
(*   keys           : the keys of self.adjacencies in dictionary order     *)
(*   nbrs           : nbrs[n] is self.adjacencies[n] when n is a key, and  *)
(*                    {} otherwise                                         *)
(*   notVisited     : the list self.notVisited                             *)
(***************************************************************************)
EXTENDS Integers, Sequences, FiniteSets, TLC

\* Number of distinct node names used as inputs.
MaxNodes == 3
\* Longest list handed to add_nodes / add_edges.
MaxBatch == 2
\* Number of elementary calls made on the receiver in one run; a list of k
\* elements handed to add_nodes / add_edges counts as k calls.
MaxCalls == 5

Nodes == 1..MaxNodes

VARIABLES
    self,   \* the receiver Graph object
    before, \* the receiver as it was when the last call that returns a value
            \* began (the receiver itself after a call that returns None)
    op,     \* name of the last method called on it ("init" after construction)
    arg,    \* the start node of that call, for bfs_tree and dfs_tree
    ret,    \* its outcome: [status, value]
    calls   \* number of elementary calls made so far

vars == <<self, before, op, arg, ret, calls>>

----------------------------------------------------------------------------
(* Python lists and sets *)

\* x in lst
InList(lst, x) == \E i \in 1..Len(lst) : lst[i] = x

\* The set of elements of a list.
Range(lst) == {lst[i] : i \in 1..Len(lst)}

\* lst.remove(x): drops the first occurrence of x.
ListRemove(lst, x) ==
    LET i == CHOOSE j \in 1..Len(lst) :
                 lst[j] = x /\ \A k \in 1..(j-1) : lst[k] # x
    IN  SubSeq(lst, 1, i-1) \o SubSeq(lst, i+1, Len(lst))

\* sorted(S)
RECURSIVE Sorted(_)
Sorted(S) ==
    IF S = {} THEN <<>>
    ELSE LET m == CHOOSE x \in S : \A y \in S : x <= y
         IN  <<m>> \o Sorted(S \ {m})

\* The orders in which Python may iterate over the set S.
RECURSIVE Perms(_)
Perms(S) ==
    IF S = {} THEN {<<>>}
    ELSE UNION {{<<x>> \o p : p \in Perms(S \ {x})} : x \in S}

\* One iteration order for every neighbour set of G: ord[n] is the order in
\* which "for neighbor in self.adjacencies[n]" yields the neighbours of n.
RECURSIVE OrdersUpTo(_, _)
OrdersUpTo(G, k) ==
    IF k = 0 THEN {<<>>}
    ELSE {Append(o, p) : o \in OrdersUpTo(G, k-1), p \in Perms(G.nbrs[k])}

IterOrders(G) == OrdersUpTo(G, MaxNodes)

----------------------------------------------------------------------------
(* Construction and mutation *)

\* Graph(directed=..., name=...) without a dotfile.
Graph(directed, name) ==
    [name |-> name, directed |-> directed, keys |-> <<>>,
     nbrs |-> [n \in Nodes |-> {}], notVisited |-> <<>>]

has_node(G, n) == InList(G.keys, n)

has_edge(G, u, v) == has_node(G, u) /\ v \in G.nbrs[u]

add_node(G, node) ==
    IF ~has_node(G, node)
    THEN [G EXCEPT !.keys = Append(@, node),
                   !.nbrs[node] = {},
                   !.notVisited = Append(@, node)]
    ELSE G

RECURSIVE add_nodes(_, _)
add_nodes(G, nodes) ==
    IF nodes = <<>> THEN G
    ELSE add_nodes(add_node(G, Head(nodes)), Tail(nodes))

add_edge(G, u, v) ==
    IF has_node(G, u) /\ has_node(G, v)
    THEN LET G1 == [G EXCEPT !.nbrs[u] = @ \cup {v}]
         IN  IF ~G.directed THEN [G1 EXCEPT !.nbrs[v] = @ \cup {u}] ELSE G1
    ELSE G

RECURSIVE add_edges(_, _)
add_edges(G, edges) ==
    IF edges = <<>> THEN G
    ELSE add_edges(add_edge(G, Head(edges)[1], Head(edges)[2]), Tail(edges))

remove_node(G, node) ==
    IF has_node(G, node)
    THEN [G EXCEPT !.keys = ListRemove(@, node), !.nbrs[node] = {}]
    ELSE G

----------------------------------------------------------------------------
(* Breadth-first search tree *)

Outcome(status, value) == [status |-> status, value |-> value]

\* The body of "for neighbor in self.adjacencies[node]" of bfs_tree, run over
\* the neighbours nbs in iteration order; st = [tree, queue, unvisited].
RECURSIVE bfs_neighbors(_, _, _)
bfs_neighbors(nbs, node, st) ==
    IF nbs = <<>> THEN st
    ELSE LET neighbor == Head(nbs)
         IN  IF InList(st.unvisited, neighbor)
             THEN bfs_neighbors(Tail(nbs), node,
                    [tree |-> add_edge(add_node(st.tree, neighbor), node, neighbor),
                     queue |-> Append(st.queue, neighbor),
                     unvisited |-> ListRemove(st.unvisited, neighbor)])
             ELSE bfs_neighbors(Tail(nbs), node, st)

\* The loop "while len(unvisited) > 0" of bfs_tree.  queue.get() on an empty
\* queue never returns (status "blocked"); self.adjacencies[node] raises
\* KeyError when node is not a key.
RECURSIVE bfs_loop(_, _, _)
bfs_loop(G, ord, st) ==
    IF Len(st.unvisited) = 0 THEN Outcome("returned", st.tree)
    ELSE IF st.queue = <<>> THEN Outcome("blocked", st.tree)
    ELSE LET node == Head(st.queue)
             unv  == IF InList(st.unvisited, node)
                     THEN ListRemove(st.unvisited, node) ELSE st.unvisited
         IN  IF ~has_node(G, node) THEN Outcome("KeyError", st.tree)
             ELSE bfs_loop(G, ord,
                    bfs_neighbors(ord[node], node,
                       [tree |-> st.tree, queue |-> Tail(st.queue),
                        unvisited |-> unv]))

\* bfs_tree without the test that start_node is a node of the receiver.
bfs_tree_any_start(G, start_node, ord) ==
    IF G.directed
    THEN Outcome("returned", Graph(FALSE, "EmptyBFSTree"))
    ELSE bfs_loop(G, ord,
           [tree |-> add_node(Graph(FALSE, "BFSTree"), start_node),
            queue |-> <<start_node>>,
            unvisited |-> G.notVisited])

bfs_tree(G, start_node, ord) ==
    IF G.directed \/ ~has_node(G, start_node)
    THEN Outcome("returned", Graph(FALSE, "EmptyBFSTree"))
    ELSE bfs_loop(G, ord,
           [tree |-> add_node(Graph(FALSE, "BFSTree"), start_node),
            queue |-> <<start_node>>,
            unvisited |-> G.notVisited])

----------------------------------------------------------------------------
(* Depth-first search tree *)

\* st = [tree, unvisited, parent, status]; parent[n] = 0 stands for ''.
RECURSIVE dfs_tree_helper(_, _, _, _)
RECURSIVE dfs_neighbors(_, _, _, _, _)

dfs_neighbors(G, ord, st, start_node, nbs) ==
    IF nbs = <<>> \/ st.status # "returned" THEN st
    ELSE LET neighbor == Head(nbs)
         IN  IF InList(st.unvisited, neighbor)
             THEN dfs_neighbors(G, ord,
                    dfs_tree_helper(G, ord,
                       [st EXCEPT !.parent[neighbor] = start_node], neighbor),
                    start_node, Tail(nbs))
             ELSE dfs_neighbors(G, ord, st, start_node, Tail(nbs))

dfs_tree_helper(G, ord, st, start_node) ==
    LET st1 == IF InList(st.unvisited, start_node)
               THEN [st EXCEPT
                       !.unvisited = ListRemove(@, start_node),
                       !.tree = IF st.parent[start_node] # 0
                                THEN add_edge(add_node(@, start_node),
                                              start_node, st.parent[start_node])
                                ELSE add_node(@, start_node)]
               ELSE st
    IN  IF ~has_node(G, start_node)
        THEN [st1 EXCEPT !.status = "KeyError"]
        ELSE dfs_neighbors(G, ord, st1, start_node, ord[start_node])

dfs_tree(G, start_node, ord) ==
    IF G.directed \/ ~has_node(G, start_node)
    THEN Outcome("returned", Graph(FALSE, "EmptyDFSTree"))
    ELSE LET st == dfs_tree_helper(G, ord,
                     [tree |-> Graph(FALSE, "DFSTree"),
                      unvisited |-> G.notVisited,
                      parent |-> [n \in Nodes |-> 0],
                      status |-> "returned"], start_node)
         IN  Outcome(st.status, st.tree)

----------------------------------------------------------------------------
(* Topological sort *)

\* top_sort_helper without the pass that drops the targets of the remaining
\* edges from noIncomingEdges.
top_sort_helper_keeps_targets(st) ==
    LET graph == st.graph
        noInc == st.noIncomingEdges \o
                   SelectSeq(graph.keys,
                             LAMBDA n : ~InList(st.noIncomingEdges, n))
    IN  IF noInc = <<>>
        THEN [st EXCEPT !.noIncomingEdges = noInc, !.status = "IndexError"]
        ELSE LET node == noInc[1]
             IN  [st EXCEPT !.topSort = Append(@, node),
                            !.graph = remove_node(graph, node),
                            !.noIncomingEdges = ListRemove(noInc, node)]

\* One call of top_sort_helper on st = [graph, noIncomingEdges, topSort,
\* status].  noIncomingEdges[0] raises IndexError on an empty list.
top_sort_helper(st) ==
    LET graph   == st.graph
        added   == st.noIncomingEdges \o
                     SelectSeq(graph.keys,
                               LAMBDA n : ~InList(st.noIncomingEdges, n))
        targets == UNION {graph.nbrs[n] : n \in Range(graph.keys)}
        noInc   == SelectSeq(added, LAMBDA n : n \notin targets)
    IN  IF noInc = <<>>
        THEN [st EXCEPT !.noIncomingEdges = noInc, !.status = "IndexError"]
        ELSE LET node == noInc[1]
             IN  [st EXCEPT !.topSort = Append(@, node),
                            !.graph = remove_node(graph, node),
                            !.noIncomingEdges = ListRemove(noInc, node)]

\* The loop "while graph.adjacencies" of topological_sort.
RECURSIVE top_sort_loop(_)
top_sort_loop(st) ==
    IF st.graph.keys = <<>> \/ st.status # "returned" THEN st
    ELSE top_sort_loop(top_sort_helper(st))

\* copy.copy(self): a new Graph object whose fields are the receiver's own
\* objects.  The operator yields the copy; what happens to its dictionary
\* happens to the receiver's (see receiver_after).
copy_copy(G) == G

\* The receiver once the working graph has been changed: both share one
\* adjacency dictionary, so the receiver has the working graph's keys and
\* neighbour sets.
receiver_after(G, graph) ==
    [G EXCEPT !.keys = graph.keys, !.nbrs = graph.nbrs]

\* topological_sort: [status, value, self] where self is the receiver when the
\* call ends.
topological_sort(G) ==
    IF ~\E node \in Range(G.keys) : G.nbrs[node] = {}
    THEN [status |-> "returned", value |-> <<>>, self |-> G]
    ELSE LET st == top_sort_loop([graph |-> copy_copy(G),
                                  noIncomingEdges |-> G.keys,
                                  topSort |-> <<>>,
                                  status |-> "returned"])
         IN  [status |-> st.status, value |-> st.topSort,
              self |-> receiver_after(G, st.graph)]

----------------------------------------------------------------------------
(* DOT export and import *)

\* A line of DOT text.  kind "header": "<kw> <name> {"; kind "edge":
\* "  <u> <arrow> <v>;"; kind "node": "  <u>;"; kind "close": "}".
Line(kind, kw, name, u, arrow, v) ==
    [kind |-> kind, kw |-> kw, name |-> name, u |-> u, arrow |-> arrow, v |-> v]

\* The lines to_dot writes for one node.
RECURSIVE dot_neighbors(_, _, _, _)
dot_neighbors(G, arrow, node, nbs) ==
    IF nbs = <<>> THEN <<>>
    ELSE LET neighbor == Head(nbs)
         IN  (IF G.directed \/ node < neighbor
              THEN <<Line("edge", "", "", node, arrow, neighbor)>>
              ELSE <<>>) \o dot_neighbors(G, arrow, node, Tail(nbs))

RECURSIVE dot_nodes(_, _, _, _)
dot_nodes(G, arrow, ord, nodes) ==
    IF nodes = <<>> THEN <<>>
    ELSE LET node == Head(nodes)
         IN  (IF Cardinality(G.nbrs[node]) = 0
              THEN <<Line("node", "", "", node, "", 0)>>
              ELSE dot_neighbors(G, arrow, node, ord[node]))
             \o dot_nodes(G, arrow, ord, Tail(nodes))

to_dot(G, ord) ==
    LET dot   == IF G.directed THEN "digraph" ELSE "graph"
        arrow == IF G.directed THEN "->" ELSE "--"
    IN  <<Line("header", dot, G.name, 0, "", 0)>>
        \o dot_nodes(G, arrow, ord, Sorted(Range(G.keys)))
        \o <<Line("close", "", "", 0, "", 0)>>

\* The body of "for line in f" of _load_from_dotfile.
load_line(G, line) ==
    IF line.kw = "digraph"
    THEN [G EXCEPT !.name = line.name, !.directed = TRUE]
    ELSE IF line.kw = "graph"
    THEN [G EXCEPT !.name = line.name, !.directed = FALSE]
    ELSE IF \/ (line.arrow = "--" /\ ~G.directed)
            \/ (line.arrow = "->" /\ G.directed)
    THEN add_edge(add_node(add_node(G, line.u), line.v), line.u, line.v)
    ELSE G

RECURSIVE _load_from_dotfile(_, _)
_load_from_dotfile(G, lines) ==
    IF lines = <<>> THEN G
    ELSE _load_from_dotfile(load_line(G, Head(lines)), Tail(lines))

\* Graph(dotfile=...): the constructor's defaults, then the load.
GraphFromDot(lines) == _load_from_dotfile(Graph(FALSE, "G"), lines)

----------------------------------------------------------------------------
(* The state machine *)

None == [status |-> "returned", value |-> "None"]

Init ==
    /\ \E d \in BOOLEAN : self = Graph(d, "G")
    /\ before = self
    /\ op = "init"
    /\ arg = <<>>
    /\ ret = None
    /\ calls = 0

\* A call of a method that returns None and leaves the receiver as G; it
\* counts for n calls.
Mutate(name, G, n) ==
    /\ calls + n <= MaxCalls
    /\ calls' = calls + n
    /\ self' = G
    /\ before' = G
    /\ op' = name
    /\ arg' = <<>>
    /\ ret' = None

\* A call of a method with outcome r that leaves the receiver as G.
Query(name, a, G, r) ==
    /\ calls + 1 <= MaxCalls
    /\ calls' = calls + 1
    /\ self' = G
    /\ before' = self
    /\ op' = name
    /\ arg' = a
    /\ ret' = r

\* What a list of k elements counts for in calls.
Cost(k) == IF k = 0 THEN 1 ELSE k

AddNode == \E n \in Nodes : Mutate("add_node", add_node(self, n), 1)

\* The lists of k node names.
NodeLists(k) == [1..k -> Nodes]

AddNodes ==
    \E k \in 0..MaxBatch :
        /\ calls + Cost(k) <= MaxCalls
        /\ \E nodes \in NodeLists(k) :
              Mutate("add_nodes", add_nodes(self, nodes), Cost(k))

AddEdge ==
    \E u \in Nodes, v \in Nodes :
        Mutate("add_edge", add_edge(self, u, v), 1)

\* The lists of k pairs of node names.
EdgeLists(k) == [1..k -> Nodes \X Nodes]

AddEdges ==
    \E k \in 0..MaxBatch :
        /\ calls + Cost(k) <= MaxCalls
        /\ \E edges \in EdgeLists(k) :
              Mutate("add_edges", add_edges(self, edges), Cost(k))

RemoveNode ==
    \E n \in Nodes : Mutate("remove_node", remove_node(self, n), 1)

BfsTree ==
    \E start \in Nodes, ord \in IterOrders(self) :
        Query("bfs_tree", <<start>>, self, bfs_tree(self, start, ord))

DfsTree ==
    \E start \in Nodes, ord \in IterOrders(self) :
        Query("dfs_tree", <<start>>, self, dfs_tree(self, start, ord))

TopologicalSort ==
    LET r == topological_sort(self)
    IN  Query("topological_sort", <<>>, r.self, Outcome(r.status, r.value))

ToDot ==
    \E ord \in IterOrders(self) :
        Query("to_dot", <<>>, self, Outcome("returned", to_dot(self, ord)))

\* Graph(dotfile=f) on the text the receiver has just been rendered to.
LoadFromDotfile ==
    /\ op = "to_dot"
    /\ Query("_load_from_dotfile", <<>>, self,
            Outcome("returned", GraphFromDot(ret.value)))

Next ==
    \/ AddNode
    \/ AddNodes
    \/ AddEdge
    \/ AddEdges
    \/ RemoveNode
    \/ BfsTree
    \/ DfsTree
    \/ TopologicalSort
    \/ ToDot
    \/ LoadFromDotfile

Spec == Init /\ [][Next]_vars

\* Runs made of the five mutating calls only.
NextBuild ==
    \/ AddNode
    \/ AddNodes
    \/ AddEdge
    \/ AddEdges
    \/ RemoveNode

SpecBuild == Init /\ [][NextBuild]_vars

----------------------------------------------------------------------------
(* Graph-theoretic vocabulary of the properties *)

NodeSet(G) == Range(G.keys)

\* The pairs (u, v) with has_edge(u, v).
EdgeSet(G) == {e \in Nodes \X Nodes : has_edge(G, e[1], e[2])}

NoDangling(G) == \A e \in EdgeSet(G) : e[2] \in NodeSet(G)

\* The nodes reachable from the set S along edges between nodes of G.
RECURSIVE ReachFrom(_, _)
ReachFrom(G, S) ==
    LET T == S \cup {v \in NodeSet(G) : \E u \in S : has_edge(G, u, v)}
    IN  IF T = S THEN S ELSE ReachFrom(G, T)

Reachable(G, s) == ReachFrom(G, {s})

HasCycle(G) ==
    \E u \in NodeSet(G), v \in NodeSet(G) :
        has_edge(G, u, v) /\ u \in Reachable(G, v)

IsDag(G) == G.directed /\ NoDangling(G) /\ ~HasCycle(G)

Connected(G) ==
    /\ NodeSet(G) # {}
    /\ \A s \in NodeSet(G) : Reachable(G, s) = NodeSet(G)

\* The edges of an undirected graph as unordered pairs.
UEdges(G) == {{e[1], e[2]} : e \in EdgeSet(G)}

\* An undirected graph without a cycle: no self-loop, and one edge fewer than
\* nodes in every connected component.
IsForest(G) ==
    /\ \A n \in NodeSet(G) : ~has_edge(G, n, n)
    /\ Cardinality(UEdges(G)) =
         Cardinality(NodeSet(G))
           - Cardinality({Reachable(G, s) : s \in NodeSet(G)})

\* Position of node n in the sequence sq.
Pos(sq, n) == CHOOSE i \in 1..Len(sq) : sq[i] = n

SameGraph(G, H) ==
    /\ G.directed = H.directed
    /\ NodeSet(G) = NodeSet(H)
    /\ EdgeSet(G) = EdgeSet(H)

IsEmptyGraph(G, name) ==
    /\ G.name = name
    /\ G.keys = <<>>
    /\ EdgeSet(G) = {}

IsSpanningTreeOf(T, G) ==
    /\ ~T.directed
    /\ NodeSet(T) = NodeSet(G)
    /\ EdgeSet(T) \subseteq EdgeSet(G)
    /\ Cardinality(UEdges(T)) = Cardinality(NodeSet(G)) - 1
    /\ IsForest(T)

----------------------------------------------------------------------------
(* Properties *)

\* C1: on a directed acyclic receiver topological_sort returns a sequence
\* holding every node of the receiver exactly once, with u before v for every
\* edge u->v of the receiver.
C1_TopSortOrdersDag ==
    (op = "topological_sort" /\ IsDag(before)) =>
        /\ ret.status = "returned"
        /\ Len(ret.value) = Cardinality(NodeSet(before))
        /\ Range(ret.value) = NodeSet(before)
        /\ \A e \in EdgeSet(before) :
              Pos(ret.value, e[1]) < Pos(ret.value, e[2])

\* A three-node DAG with an edge has been sorted, and the order returned is
\* not the order in which the nodes were added.
C1_Witness ==
    /\ op = "topological_sort"
    /\ IsDag(before)
    /\ Len(before.keys) = 3
    /\ EdgeSet(before) # {}
    /\ ret.status = "returned"
    /\ Len(ret.value) = 3
    /\ ret.value # before.keys

\* C2: on a directed receiver that contains a cycle topological_sort returns
\* the empty sequence and does not fail.
C2_TopSortOfCyclicIsEmpty ==
    (op = "topological_sort" /\ before.directed /\ HasCycle(before)) =>
        (ret.status = "returned" /\ ret.value = <<>>)

\* C3: on an undirected receiver with start among its nodes, bfs_tree(start)
\* returns, and the tree's nodes are exactly the nodes reachable from start.
C3_BfsCoversComponent ==
    (op = "bfs_tree" /\ ~before.directed /\ has_node(before, arg[1])) =>
        (ret.status = "returned"
           /\ NodeSet(ret.value) = Reachable(before, arg[1]))

\* C4: on a connected undirected receiver with n nodes, bfs_tree(start) and
\* dfs_tree(start) return an undirected graph on the receiver's nodes, made of
\* n-1 of the receiver's edges and without a cycle.
C4_TreesSpanConnected ==
    (op \in {"bfs_tree", "dfs_tree"} /\ ~before.directed
       /\ Connected(before) /\ has_node(before, arg[1])) =>
        (ret.status = "returned" /\ IsSpanningTreeOf(ret.value, before))

\* C5: bfs_tree, dfs_tree and topological_sort leave the receiver's node set
\* and every node's neighbour set as they were before the call.
C5_TraversalsKeepReceiver ==
    (op \in {"bfs_tree", "dfs_tree", "topological_sort"}) =>
        (NodeSet(self) = NodeSet(before) /\ self.nbrs = before.nbrs)

\* C6: every name in some node's neighbour set is a key of the adjacency
\* mapping.
C6_NoDanglingEndpoints == NoDangling(self)

\* C7: in an undirected Graph has_edge(u, v) equals has_edge(v, u) for all
\* names u and v.
C7_UndirectedSymmetric ==
    ~self.directed =>
        \A u \in Nodes, v \in Nodes : has_edge(self, u, v) = has_edge(self, v, u)

\* C8: parsing the DOT text of a Graph gives a graph with the same
\* directedness, the same node set and the same edge set.
C8_DotRoundTrip ==
    (op = "_load_from_dotfile") => SameGraph(ret.value, self)

\* C9: when the receiver is directed or start is not one of its nodes,
\* bfs_tree(start) and dfs_tree(start) return a graph without nodes or edges,
\* named EmptyBFSTree and EmptyDFSTree.
C9_EmptyTreeOnBadInput ==
    (op \in {"bfs_tree", "dfs_tree"}
       /\ (before.directed \/ ~has_node(before, arg[1]))) =>
        /\ ret.status = "returned"
        /\ IsEmptyGraph(ret.value,
              IF op = "bfs_tree" THEN "EmptyBFSTree" ELSE "EmptyDFSTree")

\* bfs_tree was called on an undirected receiver that has nodes and an edge,
\* with a start that is not one of its nodes.
C9_Witness ==
    /\ op = "bfs_tree"
    /\ ~before.directed
    /\ ~has_node(before, arg[1])
    /\ EdgeSet(before) # {}
    /\ InList(before.notVisited, arg[1])
    /\ ret.status = "returned"

\* C10: notVisited holds exactly the keys of the adjacency mapping, each once.
C10_NotVisitedIsKeys ==
    /\ Range(self.notVisited) = NodeSet(self)
    /\ Len(self.notVisited) = Len(self.keys)

====
